---- MODULE Spec2Model ----
\* exdenv: loadEnv (core .env + .env.<environment>.defaults, merged, validated by
\* a schema, applied to process.env) and its built-in .env parser.
\*
\* JavaScript strings are modelled as sequences of one-character strings, so that
\* the regular expressions of the parser work on characters.  Positions in a text
\* are 1-based; a position p denotes the gap before character p, so the JavaScript
\* index of p is p - 1.
EXTENDS Integers, Sequences, FiniteSets, TLC

VARIABLES processEnv, files, lastIndex, calls, env0, applied, trace,
          inputLines, parseResult

vars == <<processEnv, files, lastIndex, calls, env0, applied, trace,
          inputLines, parseResult>>

----------------------------------------------------------------------------
\* Character classes of the regular expressions.

\* \s : white space and line terminators (the ASCII ones)
WhiteSpace == {" ", "\t", "\n", "\r", "\f"}

\* the characters that . does not match, and that ^ and $ look at under the m flag
LineTerminator == {"\n", "\r"}

\* \w
WordChar ==
  {"a","b","c","d","e","f","g","h","i","j","k","l","m",
   "n","o","p","q","r","s","t","u","v","w","x","y","z",
   "A","B","C","D","E","F","G","H","I","J","K","L","M",
   "N","O","P","Q","R","S","T","U","V","W","X","Y","Z",
   "0","1","2","3","4","5","6","7","8","9","_"}

\* [\w.-]
KeyChar == WordChar \cup {".", "-"}

\* the three quote characters
SQ == "'"

DQ == "\""

\* the backquote character, by name: a TLA+ string cannot hold it
BQ == "BACKQUOTE"

QuoteChar == {SQ, DQ, BQ}

Max(S) == CHOOSE x \in S : \A y \in S : y <= x

Min(S) == CHOOSE x \in S : \A y \in S : x <= y

\* the characters of s from position a up to (not including) position b
Sub(s, a, b) == SubSeq(s, a, b - 1)

RECURSIVE RunEnd(_, _, _)
\* the position after the longest run of characters of class C that starts at i
RunEnd(s, i, C) ==
  IF i <= Len(s) /\ s[i] \in C THEN RunEnd(s, i + 1, C) ELSE i

RECURSIVE RunEndNot(_, _, _)
\* the position after the longest run of characters outside class C from i
RunEndNot(s, i, C) ==
  IF i <= Len(s) /\ s[i] \notin C THEN RunEndNot(s, i + 1, C) ELSE i

\* ^ under the m flag
AtLineStart(s, i) == i = 1 \/ (i - 1 <= Len(s) /\ s[i - 1] \in LineTerminator)

\* $ under the m flag
AtLineEnd(s, i) == i = Len(s) + 1 \/ (i <= Len(s) /\ s[i] \in LineTerminator)

\* the literal text lit is found in s at position i
LitAt(s, i, lit) ==
  /\ i + Len(lit) - 1 <= Len(s)
  /\ \A k \in 1..Len(lit) : s[i + k - 1] = lit[k]

----------------------------------------------------------------------------
\* LINE, matched by backtracking in the order the regular expression gives:
\* a greedy quantifier tries its longest run first and then shorter ones, a lazy
\* one its shortest first, an alternation its alternatives left to right, and
\* each later part of the pattern is matched under every choice of the earlier
\* parts in that order.  An operator answers 0, or NoMatch, when nothing matches.

NoMatch == [ok |-> FALSE]

\* the one element of a set of one element
The(S) == CHOOSE x \in S : TRUE

\* (?:#.*)?(?:$|$) from position j: the end of the match, or 0.  The greedy .*
\* runs to the next line terminator, which is where $ holds
CommentAndEnd(s, j) ==
  IF j <= Len(s) /\ s[j] = "#" THEN RunEndNot(s, j + 1, LineTerminator)
  ELSE IF AtLineEnd(s, j) THEN j ELSE 0

RECURSIVE LineRestTry(_, _, _)
\* \s*(?:#.*)?(?:$|$) from position i with the white space ending at j or before
LineRestTry(s, i, j) ==
  IF j < i THEN 0
  ELSE The({ IF e # 0 THEN e ELSE LineRestTry(s, i, j - 1)
             : e \in {CommentAndEnd(s, j)} })

\* \s*(?:#.*)?(?:$|$) from position i: the end of the match, or 0
LineRest(s, i) == LineRestTry(s, i, RunEnd(s, i, WhiteSpace))

\* a value that ends at position ve, then the rest of the line
ValueEnd(s, ve) ==
  The({ IF end # 0 THEN [ok |-> TRUE, ve |-> ve, end |-> end] ELSE NoMatch
        : end \in {LineRest(s, ve)} })

RECURSIVE QuotedBody(_, _, _)
\* (?:\\q|[^q])*q from position p, then the rest of the line: the alternatives
\* of one more repetition in their order, then the closing quote
QuotedBody(s, p, q) ==
  The({ IF escaped.ok THEN escaped
        ELSE The({ IF other.ok THEN other
                   ELSE IF p <= Len(s) /\ s[p] = q THEN ValueEnd(s, p + 1)
                   ELSE NoMatch
                   : other \in { IF p <= Len(s) /\ s[p] # q
                                 THEN QuotedBody(s, p + 1, q) ELSE NoMatch } })
        : escaped \in { IF p + 1 <= Len(s) /\ s[p] = "\\" /\ s[p + 1] = q
                        THEN QuotedBody(s, p + 2, q) ELSE NoMatch } })

RECURSIVE QuotedAltTry(_, _, _, _)
\* \s*q(?:\\q|[^q])*q from position i with the white space ending at w or before
QuotedAltTry(s, i, w, q) ==
  IF w < i THEN NoMatch
  ELSE The({ IF r.ok THEN r ELSE QuotedAltTry(s, i, w - 1, q)
             : r \in { IF w <= Len(s) /\ s[w] = q
                       THEN QuotedBody(s, w + 1, q) ELSE NoMatch } })

RECURSIVE PlainAltTry(_, _, _)
\* [^#\r\n]+ from position i ending at e or before, then the rest of the line
PlainAltTry(s, i, e) ==
  IF e <= i THEN NoMatch
  ELSE The({ IF r.ok THEN r ELSE PlainAltTry(s, i, e - 1)
             : r \in {ValueEnd(s, e)} })

\* the value group without its three quoted alternatives
ValueAltTryPlain(s, i, n) ==
  PlainAltTry(s, i, RunEndNot(s, i, {"#", "\r", "\n"}))

RECURSIVE ValueAltTry(_, _, _)
\* the alternatives of the value group from the n-th on, at position i, each
\* with the rest of the line: the three quoted ones, then [^#\r\n]+
ValueAltTry(s, i, n) ==
  IF n = 4 THEN PlainAltTry(s, i, RunEndNot(s, i, {"#", "\r", "\n"}))
  ELSE The({ IF r.ok THEN r ELSE ValueAltTry(s, i, n + 1)
             : r \in {QuotedAltTry(s, i, RunEnd(s, i, WhiteSpace),
                                   <<SQ, DQ, BQ>>[n])} })

\* (...)?\s*(?:#.*)?$ from position i: the optional value group (has: whether
\* it took part, match[2] being undefined otherwise) and the end of the match
ValueAndRest(s, i) ==
  The({ IF a.ok
        THEN [ok |-> TRUE, has |-> TRUE, vs |-> i, ve |-> a.ve, end |-> a.end]
        ELSE The({ IF none.ok
                   THEN [ok |-> TRUE, has |-> FALSE, vs |-> i, ve |-> i,
                         end |-> none.end]
                   ELSE NoMatch
                   : none \in {ValueEnd(s, i)} })
        : a \in {ValueAltTry(s, i, 1)} })

RECURSIVE LazySpaceTry(_, _, _)
\* a lazy run of white space that ends at z or later (at zmax at most), then the
\* value and the rest of the line
LazySpaceTry(s, z, zmax) ==
  IF z > zmax THEN NoMatch
  ELSE The({ IF r.ok THEN r ELSE LazySpaceTry(s, z + 1, zmax)
             : r \in {ValueAndRest(s, z)} })

RECURSIVE SeparatorTryAnyColon(_, _, _)
\* the separator as \s*[=:]\s*?: a colon like an equals sign, with optional
\* white space on either side
SeparatorTryAnyColon(s, i, w) ==
  IF w < i THEN NoMatch
  ELSE The({ IF r.ok THEN r ELSE SeparatorTryAnyColon(s, i, w - 1)
             : r \in { IF w <= Len(s) /\ s[w] \in {"=", ":"}
                       THEN LazySpaceTry(s, w + 1, RunEnd(s, w + 1, WhiteSpace))
                       ELSE NoMatch } })

RECURSIVE SeparatorTry(_, _, _)
\* (?:\s*=\s*?|:\s+?) from position i, then the value and the rest of the line:
\* \s*=\s*? with the first white space ending at w or before, and when w < i
\* the second alternative, :\s+?
SeparatorTry(s, i, w) ==
  The({ IF r.ok \/ w < i THEN r ELSE SeparatorTry(s, i, w - 1)
        : r \in { IF \/ (w >= i /\ w <= Len(s) /\ s[w] = "=")
                     \/ (w < i /\ i <= Len(s) /\ s[i] = ":")
                  THEN LazySpaceTry(s, IF w < i THEN i + 2 ELSE w + 1,
                                    RunEnd(s, IF w < i THEN i + 1 ELSE w + 1,
                                           WhiteSpace))
                  ELSE NoMatch } })

RECURSIVE KeyTryBare(_, _, _)
\* the key with an optional separator: a key that no separator follows is
\* matched as well
KeyTryBare(s, k, e) ==
  IF e <= k THEN NoMatch
  ELSE The({ IF r.ok
             THEN [ok |-> TRUE, ks |-> k, ke |-> e, has |-> r.has,
                   vs |-> r.vs, ve |-> r.ve, end |-> r.end]
             ELSE KeyTryBare(s, k, e - 1)
             : r \in { The({ IF sep.ok THEN sep ELSE ValueAndRest(s, e)
                             : sep \in {SeparatorTry(s, e, RunEnd(s, e, WhiteSpace))} }) } })

RECURSIVE KeyTry(_, _, _)
\* ([\w.-]+) from position k ending at e or before, then the rest of the pattern
KeyTry(s, k, e) ==
  IF e <= k THEN NoMatch
  ELSE The({ IF r.ok
             THEN [ok |-> TRUE, ks |-> k, ke |-> e, has |-> r.has,
                   vs |-> r.vs, ve |-> r.ve, end |-> r.end]
             ELSE KeyTry(s, k, e - 1)
             : r \in {SeparatorTry(s, e, RunEnd(s, e, WhiteSpace))} })

Export == <<"e", "x", "p", "o", "r", "t">>

RECURSIVE ExportTry(_, _, _)
\* (?:export\s+)? from position x, then the rest of the pattern: export with its
\* white space ending at y or before, and when y < x + 7 (a white space at
\* least) the pattern without export
ExportTry(s, x, y) ==
  The({ IF r.ok \/ y < x + 7 THEN r ELSE ExportTry(s, x, y - 1)
        : r \in {KeyTry(s, IF y < x + 7 THEN x ELSE y,
                        RunEnd(s, IF y < x + 7 THEN x ELSE y, KeyChar))} })

RECURSIVE MatchTry(_, _, _)
\* ^\s* from position p with the white space ending at x or before
MatchTry(s, p, x) ==
  IF x < p THEN NoMatch
  ELSE The({ IF r.ok THEN r ELSE MatchTry(s, p, x - 1)
             : r \in {ExportTry(s, x, IF LitAt(s, x, Export)
                                      THEN RunEnd(s, x + 6, WhiteSpace) ELSE x)} })

RECURSIVE ExecFrom(_, _)
\* the leftmost match of LINE at position p or later
ExecFrom(s, p) ==
  IF p > Len(s) + 1 THEN NoMatch
  ELSE The({ IF m.ok THEN m ELSE ExecFrom(s, p + 1)
             : m \in { IF AtLineStart(s, p)
                       THEN MatchTry(s, p, RunEnd(s, p, WhiteSpace))
                       ELSE NoMatch } })

\* LINE.exec(s) that leaves lastIndex at the end of the text when nothing
\* matches, instead of resetting it
ExecKeepingLastIndex(s, li) ==
  The({ [match |-> m, lastIndex |-> IF m.ok THEN m.end - 1 ELSE Len(s)]
        : m \in {ExecFrom(s, li + 1)} })

\* LINE.exec(s) with LINE.lastIndex = li (a JavaScript index): the leftmost match
\* at or after li and the new lastIndex (the end of the match), or null with
\* lastIndex reset to 0
Exec(s, li) ==
  The({ [match |-> m, lastIndex |-> IF m.ok THEN m.end - 1 ELSE 0]
        : m \in {ExecFrom(s, li + 1)} })

----------------------------------------------------------------------------
\* parse: the built-in parser.

\* a JavaScript object with string keys, as a function from its own keys
EmptyObject == <<>>

\* obj[key] = value only when obj has no such key yet
PutFirst(obj, key, value) ==
  [k \in DOMAIN obj \cup {key} |-> IF k \in DOMAIN obj THEN obj[k] ELSE value]

\* obj[key] = value
Put(obj, key, value) ==
  [k \in DOMAIN obj \cup {key} |-> IF k = key THEN value ELSE obj[k]]

RECURSIVE NormalizeLineBreaks(_)
\* lines.replace(/\r\n?/mg, '\n')
NormalizeLineBreaks(s) ==
  IF s = <<>> THEN <<>>
  ELSE IF s[1] = "\r"
       THEN <<"\n">> \o NormalizeLineBreaks(
              IF Len(s) >= 2 /\ s[2] = "\n" THEN SubSeq(s, 3, Len(s)) ELSE Tail(s))
       ELSE <<s[1]>> \o NormalizeLineBreaks(Tail(s))

\* value.trim()
Trim(s) ==
  LET a == RunEnd(s, 1, WhiteSpace)
      bs == {b \in a..(Len(s) + 1) : \A k \in b..Len(s) : s[k] \in WhiteSpace}
  IN  IF a > Len(s) THEN <<>> ELSE Sub(s, a, Min(bs))

\* the first and the last character removed when both are quote characters,
\* the same one or not
RemoveQuotesAnyPair(s, p) ==
  IF Len(s) >= 2 /\ s[1] \in QuoteChar /\ s[Len(s)] \in QuoteChar
  THEN SubSeq(s, 2, Len(s) - 1)
  ELSE s

RECURSIVE RemoveQuotesFrom(_, _)
\* value.replace(/^(['"`])([\s\S]*)\1$/mg, '$2'), scanning from position p:
\* each match (a quote character at a line start, up to the last occurrence of the
\* same character that stands at a line end) is replaced by what it encloses
RemoveQuotesFrom(s, p) ==
  IF p > Len(s) THEN <<>>
  ELSE LET es == IF AtLineStart(s, p) /\ s[p] \in QuoteChar
                 THEN {e \in (p + 1)..Len(s) : s[e] = s[p] /\ AtLineEnd(s, e + 1)}
                 ELSE {}
       IN  IF es # {}
           THEN Sub(s, p + 1, Max(es)) \o RemoveQuotesFrom(s, Max(es) + 1)
           ELSE <<s[p]>> \o RemoveQuotesFrom(s, p + 1)

RECURSIVE ReplaceEscape(_, _, _)
\* value.replace(/\\c/g, to): every backslash followed by the letter c
ReplaceEscape(s, c, to) ==
  IF s = <<>> THEN <<>>
  ELSE IF Len(s) >= 2 /\ s[1] = "\\" /\ s[2] = c
       THEN <<to>> \o ReplaceEscape(SubSeq(s, 3, Len(s)), c, to)
       ELSE <<s[1]>> \o ReplaceEscape(Tail(s), c, to)

\* the value stored for a match whose second group is raw (match[2] || ''):
\* trim, the first character, the quotes removed, the escapes of a
\* double-quoted value expanded
MatchValue(raw) ==
  The({ IF trimmed # <<>> /\ trimmed[1] = DQ
        THEN ReplaceEscape(ReplaceEscape(RemoveQuotesFrom(trimmed, 1), "n", "\n"),
                           "r", "\r")
        ELSE RemoveQuotesFrom(trimmed, 1)
        : trimmed \in {Trim(raw)} })

RECURSIVE ParseLoop(_, _, _)
\* while ((match = LINE.exec(lines)) != null) { ... obj[key] = value }
ParseLoop(lines, li, obj) ==
  The({ IF ~r.match.ok THEN [obj |-> obj, lastIndex |-> r.lastIndex]
        ELSE ParseLoop(lines, r.lastIndex,
                       Put(obj, Sub(lines, r.match.ks, r.match.ke),
                           MatchValue(IF r.match.has
                                      THEN Sub(lines, r.match.vs, r.match.ve)
                                      ELSE <<>>)))
        : r \in {Exec(lines, li)} })

\* src.toString(): a Buffer is decoded as UTF-8, a string is itself.  The
\* contents modelled are ASCII text, which every encoding of Node decodes to
\* the same characters.
toString(src) == src.data

\* parse(src) run with LINE.lastIndex = li: the object returned and the
\* lastIndex left behind
parse(src, li) == ParseLoop(NormalizeLineBreaks(toString(src)), li, EmptyObject)

----------------------------------------------------------------------------
\* The host: process.env, the file system, the options and schemas of a caller.

\* undefined, where a string is expected (no string has a part of two letters)
Undefined == <<"undefined">>

\* !x for a string or undefined x
Falsy(x) == x = Undefined \/ x = <<>>

NODE_ENV == <<"N", "O", "D", "E", "_", "E", "N", "V">>

DotEnv == <<".", "e", "n", "v">>

DotDefaults == <<".", "d", "e", "f", "a", "u", "l", "t", "s">>

\* process.cwd()
Cwd == <<"/", "w">>

\* path.resolve(cwd, name) for a relative file name without directory parts
pathResolve(cwd, name) == cwd \o <<"/">> \o name

\* path.resolve(process.cwd(), '.env')
DefaultCorePath == pathResolve(Cwd, DotEnv)

\* path.resolve(process.cwd(), `.env.${currentEnvironment}.defaults`)
DefaultDefaultsPath(currentEnvironment) ==
  pathResolve(Cwd, DotEnv \o <<".">> \o currentEnvironment \o DotDefaults)

\* obj[key] for an object of strings
Lookup(obj, key) == IF key \in DOMAIN obj THEN obj[key] ELSE Undefined

\* Object.assign(target, source)
ObjectAssign(target, source) ==
  [k \in DOMAIN target \cup DOMAIN source |->
     IF k \in DOMAIN source THEN source[k] ELSE target[k]]

NoData == [type |-> "undefined", data |-> <<>>]

\* !x for what loadFile returns: undefined and the empty string are falsy, a
\* Buffer (even an empty one) and a non-empty string are truthy
FalsyData(x) == x.type = "undefined" \/ (x.type = "string" /\ x.data = <<>>)

\* loadFile: fs.readFileSync(filePath, { encoding }) gives a Buffer without an
\* encoding and a string with one; whatever it throws becomes undefined
loadFile(filePath, encoding) ==
  IF filePath \in DOMAIN files /\ files[filePath].readable
  THEN [type |-> IF encoding = "undefined" THEN "Buffer" ELSE "string",
        data |-> files[filePath].data]
  ELSE NoData

RECURSIVE Split(_, _)
\* s.split(c) for a one-character separator c
Split(s, c) ==
  LET n == RunEndNot(s, 1, {c})
  IN  IF n > Len(s) THEN <<s>>
      ELSE <<Sub(s, 1, n)>> \o Split(SubSeq(s, n + 1, Len(s)), c)

RECURSIVE CustomParserLines(_, _)
\* the forEach of customParser over the lines, from line n on
CustomParserLines(lns, parsed) ==
  IF lns = <<>> THEN parsed
  ELSE LET parts == Split(Head(lns), "=")
           key   == parts[1]
           value == IF Len(parts) >= 2 THEN parts[2] ELSE Undefined
       IN  CustomParserLines(Tail(lns),
             IF ~Falsy(key) /\ ~Falsy(value)
             THEN Put(parsed, Trim(key), Trim(value)) ELSE parsed)

\* the custom parse function of the README and of the tests
customParser(input) == CustomParserLines(Split(toString(input), "\n"), EmptyObject)

\* the key the caller's second parse function marks an empty content with
KeyEmpty == <<"e", "m", "p", "t", "y">>

\* another parse function a caller may supply (any function from the content to
\* a record of strings is one): customParser, except that it reports an empty
\* content with a marker entry
markingParser(input) ==
  IF toString(input) = <<>> THEN (KeyEmpty :> <<"1">>) ELSE customParser(input)

\* the built-in parser whatever opt.parse is
actualParseBuiltIn(parseOption, src, li) == parse(src, li)

\* actualParse(src) with LINE.lastIndex = li: opt.parse when given, else parse
actualParse(parseOption, src, li) ==
  CASE parseOption = "customParser" ->
         [obj |-> customParser(src), lastIndex |-> li]
    [] parseOption = "markingParser" ->
         [obj |-> markingParser(src), lastIndex |-> li]
    [] OTHER -> parse(src, li)

----------------------------------------------------------------------------
\* The schema: the caller's object with a try method, which answers
\* { ok: true, value } or { ok: false, issues }.

KeyA == <<"A">>

KeyB == <<"B">>

\* d.any()
SchemaAny == [kind |-> "any", shape |-> <<>>]

\* d.object({ A: d.string(), B: d.string() })
SchemaObject == [kind |-> "object", shape |-> <<KeyA, KeyB>>]

\* a schema that changes what it is given: it keeps the keys of its shape only
\* and gives a missing one a default value
SchemaDefaults == [kind |-> "defaults", shape |-> <<KeyA, KeyB>>]

DefaultValue == <<"d">>

\* the issue of a key of the shape that is not a string: its input is
\* undefined, the key being missing
Issue(key) ==
  [code |-> <<"type">>, path |-> <<key>>, input |-> Undefined,
   message |-> <<"Must be a string">>, param |-> <<"string">>]

\* schema.try(input)
Try(schema, input) ==
  LET Missing(k) == k \notin DOMAIN input
      missing == SelectSeq(schema.shape, Missing)
      shapeKeys == {schema.shape[i] : i \in 1..Len(schema.shape)}
  IN  CASE schema.kind = "any" ->
             [ok |-> TRUE, value |-> input, issues |-> <<>>]
        [] schema.kind = "object" ->
             IF missing = <<>>
             THEN [ok |-> TRUE, value |-> input, issues |-> <<>>]
             ELSE [ok |-> FALSE, value |-> EmptyObject,
                   issues |-> [i \in 1..Len(missing) |-> Issue(missing[i])]]
        [] schema.kind = "defaults" ->
             [ok |-> TRUE,
              value |-> [k \in shapeKeys |->
                           IF k \in DOMAIN input THEN input[k] ELSE DefaultValue],
              issues |-> <<>>]

----------------------------------------------------------------------------
\* loadEnv

\* the number of loadEnv calls of a run
MaxCalls == 2

\* 'NODE_ENV' whatever opt.processEnvKey is
EnvironmentKeyNodeEnv(opt) == NODE_ENV

\* opt?.processEnvKey || 'NODE_ENV'
EnvironmentKey(opt) ==
  IF Falsy(opt.processEnvKey) THEN NODE_ENV ELSE opt.processEnvKey

\* opt?.corePath || path.resolve(process.cwd(), '.env')
CoreEnvFilePath(opt) ==
  IF Falsy(opt.corePath) THEN DefaultCorePath ELSE opt.corePath

\* the defaults path without a look at opt.defaultsPathsMap
DefaultsEnvFilePathWithoutMap(opt, currentEnvironment) ==
  DefaultDefaultsPath(currentEnvironment)

\* opt?.defaultsPathsMap?.[currentEnvironment] ||
\*   path.resolve(process.cwd(), `.env.${currentEnvironment}.defaults`)
DefaultsEnvFilePath(opt, currentEnvironment) ==
  IF Falsy(Lookup(opt.defaultsPathsMap, currentEnvironment))
  THEN DefaultDefaultsPath(currentEnvironment)
  ELSE Lookup(opt.defaultsPathsMap, currentEnvironment)

\* the check of the two buffers left out
NoSourceFileUnchecked(coreEnvFileBuffer, defaultsEnvFileBuffer) == FALSE

\* !coreEnvFileBuffer && !defaultsEnvFileBuffer
NoSourceFile(coreEnvFileBuffer, defaultsEnvFileBuffer) ==
  FalsyData(coreEnvFileBuffer) /\ FalsyData(defaultsEnvFileBuffer)

\* buffer || 'Z=0': a placeholder declaration for a source that is absent
OrPlaceholder(buffer) ==
  IF FalsyData(buffer) THEN [type |-> "string", data |-> <<"Z", "=", "0">>]
  ELSE buffer

\* buffer || ''
OrEmptyString(buffer) ==
  IF FalsyData(buffer) THEN [type |-> "string", data |-> <<>>] ELSE buffer

\* the merge with the two sources in the other order
MergeCoreFirst(defaultsVariables, coreVariables) ==
  ObjectAssign(coreVariables, defaultsVariables)

\* the merge as coreVariables[k] || defaultsVariables[k]
MergeNonEmpty(defaultsVariables, coreVariables) ==
  [k \in DOMAIN defaultsVariables \cup DOMAIN coreVariables |->
     IF k \in DOMAIN coreVariables
        /\ (coreVariables[k] # <<>> \/ k \notin DOMAIN defaultsVariables)
     THEN coreVariables[k] ELSE defaultsVariables[k]]

\* Object.assign(actualParse(defaults), actualParse(core))
Merge(defaultsVariables, coreVariables) ==
  ObjectAssign(defaultsVariables, coreVariables)

\* currentEnvironment === undefined
MissingEnvironmentUndefinedOnly(currentEnvironment) ==
  currentEnvironment = Undefined

\* !currentEnvironment
MissingEnvironment(currentEnvironment) == Falsy(currentEnvironment)

\* the variables loaded are assigned before they are validated
ProcessEnvAfterAssignFirst(env, loadedEnvVariables, parsedEnvVariablesResult) ==
  IF parsedEnvVariablesResult.ok
  THEN ObjectAssign(ObjectAssign(env, loadedEnvVariables),
                    parsedEnvVariablesResult.value)
  ELSE ObjectAssign(env, loadedEnvVariables)

\* the variables loaded are assigned, not the value of the schema
ProcessEnvAfterRaw(env, loadedEnvVariables, parsedEnvVariablesResult) ==
  IF parsedEnvVariablesResult.ok THEN ObjectAssign(env, loadedEnvVariables) ELSE env

\* on a validation failure the variables without an issue are assigned
ProcessEnvAfterKeepingValid(env, loadedEnvVariables, parsedEnvVariablesResult) ==
  LET issues  == parsedEnvVariablesResult.issues
      invalid == {issues[i].path[1] : i \in 1..Len(issues)}
      valid   == [k \in DOMAIN loadedEnvVariables \ invalid |-> loadedEnvVariables[k]]
  IN  IF parsedEnvVariablesResult.ok
      THEN ObjectAssign(env, parsedEnvVariablesResult.value)
      ELSE ObjectAssign(env, valid)

\* process.env = parsedEnvVariablesResult.value: the value of the schema takes
\* the place of process.env
ProcessEnvAfterReplacing(env, loadedEnvVariables, parsedEnvVariablesResult) ==
  IF parsedEnvVariablesResult.ok THEN parsedEnvVariablesResult.value ELSE env

\* if (!parsedEnvVariablesResult.ok) throw ...;
\* Object.assign(process.env, parsedEnvVariablesResult.value):
\* process.env after the validation of the variables loaded
ProcessEnvAfter(env, loadedEnvVariables, parsedEnvVariablesResult) ==
  IF parsedEnvVariablesResult.ok
  THEN ObjectAssign(env, parsedEnvVariablesResult.value)
  ELSE env

NoError == [message |-> "", issues |-> <<>>]

MissingEnvironmentError ==
  [message |-> "For loading the actual .env defaults file, there is necessary environment in process.env",
   issues |-> <<>>]

NoSourceFileError ==
  [message |-> "There are necessary either the core (.env) file or defaults (.env.[environment].defaults) file",
   issues |-> <<>>]

\* JSON.stringify(value, null, 2) for an issue: its properties with their
\* values, a property whose value is undefined left out
JSONstringify(value) ==
  [name \in {n \in DOMAIN value : value[n] # Undefined} |-> value[name]]

\* the error that reports the first issue only
ValidationErrorFirst(issues) ==
  [message |-> "Validation errors: ",
   issues  |-> IF issues = <<>> THEN <<>> ELSE <<JSONstringify(issues[1])>>]

\* `Validation errors: ${issues.map(JSON.stringify).join('\n')}`: the message
\* is the prefix and the texts of the issues, joined in their order
ValidationError(issues) ==
  [message |-> "Validation errors: ",
   issues  |-> [i \in 1..Len(issues) |-> JSONstringify(issues[i])]]

\* what a call has done, as a caller and the host observe it: the error thrown
\* (NoError when the call returned), the paths given to fs.readFileSync, the
\* parser calls and the argument of schema.try, each in the order made
NoTrace ==
  [schema |-> SchemaAny, opt |-> <<>>, envBefore |-> <<>>, called |-> FALSE,
   error |-> NoError, reads |-> <<>>, parses |-> <<>>, tried |-> <<>>,
   result |-> <<>>]

\* the two actualParse calls, the defaults file's first, and the merge, with
\* LINE.lastIndex = li before them
LoadedEnvVariables(opt, defaultsSrc, coreSrc, li) ==
  The({ The({ [defaults  |-> defaultsParsed.obj,
               core      |-> coreParsed.obj,
               merged    |-> Merge(defaultsParsed.obj, coreParsed.obj),
               lastIndex |-> coreParsed.lastIndex]
              : coreParsed \in {actualParse(opt.parse, coreSrc,
                                            defaultsParsed.lastIndex)} })
        : defaultsParsed \in {actualParse(opt.parse, defaultsSrc, li)} })

\* loadEnv from schema.try on, the schema being given the variables loaded
\* written over process.env
ValidatedWithProcessEnv(entered, schema, env, parser, defaultsSrc, coreSrc, loaded) ==
  The({ [trace |->
           [entered EXCEPT
              !.parses = << [parser |-> parser, src |-> defaultsSrc,
                             obj |-> loaded.defaults],
                            [parser |-> parser, src |-> coreSrc,
                             obj |-> loaded.core] >>,
              !.tried  = <<ObjectAssign(env, loaded.merged)>>,
              !.result = <<parsedEnvVariablesResult>>,
              !.error  = IF parsedEnvVariablesResult.ok THEN NoError
                         ELSE ValidationError(parsedEnvVariablesResult.issues)],
         processEnv |-> ProcessEnvAfter(env, loaded.merged, parsedEnvVariablesResult),
         lastIndex |-> loaded.lastIndex]
        : parsedEnvVariablesResult \in {Try(schema, ObjectAssign(env, loaded.merged))} })

\* loadEnv from schema.try on, for the variables loaded
Validated(entered, schema, env, parser, defaultsSrc, coreSrc, loaded) ==
  The({ [trace |->
           [entered EXCEPT
              !.parses = << [parser |-> parser, src |-> defaultsSrc,
                             obj |-> loaded.defaults],
                            [parser |-> parser, src |-> coreSrc,
                             obj |-> loaded.core] >>,
              !.tried  = <<loaded.merged>>,
              !.result = <<parsedEnvVariablesResult>>,
              !.error  = IF parsedEnvVariablesResult.ok THEN NoError
                         ELSE ValidationError(parsedEnvVariablesResult.issues)],
         processEnv |-> ProcessEnvAfter(env, loaded.merged, parsedEnvVariablesResult),
         lastIndex |-> loaded.lastIndex]
        : parsedEnvVariablesResult \in {Try(schema, loaded.merged)} })

\* loadEnv from the two loadFile calls on, for the current environment
Loaded(entered, schema, opt, env, li, coreEnvFileBuffer, defaultsEnvFileBuffer) ==
  IF NoSourceFile(coreEnvFileBuffer, defaultsEnvFileBuffer)
  THEN [trace |-> [entered EXCEPT !.error = NoSourceFileError],
        processEnv |-> env, lastIndex |-> li]
  ELSE Validated(entered, schema, env,
                 IF opt.parse = "undefined" THEN "parse" ELSE opt.parse,
                 OrEmptyString(defaultsEnvFileBuffer),
                 OrEmptyString(coreEnvFileBuffer),
                 LoadedEnvVariables(opt, OrEmptyString(defaultsEnvFileBuffer),
                                    OrEmptyString(coreEnvFileBuffer), li))

\* loadEnv from the paths on, for the current environment
Resolved(entered, schema, opt, env, li, coreEnvFilePath, defaultsEnvFilePath) ==
  Loaded([entered EXCEPT !.reads = <<coreEnvFilePath, defaultsEnvFilePath>>],
         schema, opt, env, li,
         loadFile(coreEnvFilePath, opt.encoding),
         loadFile(defaultsEnvFilePath, opt.encoding))

\* one call of loadEnv(schema, opt) with process.env = env and
\* LINE.lastIndex = li: what the call does (trace) and what it leaves behind
loadEnvCall(schema, opt, env, li) ==
  The({ IF MissingEnvironment(currentEnvironment)
        THEN [trace |-> [NoTrace EXCEPT !.schema = schema, !.opt = opt,
                                        !.envBefore = env, !.called = TRUE,
                                        !.error = MissingEnvironmentError],
              processEnv |-> env, lastIndex |-> li]
        ELSE Resolved([NoTrace EXCEPT !.schema = schema, !.opt = opt,
                                      !.envBefore = env, !.called = TRUE],
                      schema, opt, env, li,
                      CoreEnvFilePath(opt),
                      DefaultsEnvFilePath(opt, currentEnvironment))
        : currentEnvironment \in {Lookup(env, EnvironmentKey(opt))} })

\* a caller calls loadEnv(schema, opt).  applied lists the values of the calls
\* that returned, in call order
loadEnv(schema, opt) ==
  /\ calls < MaxCalls
  /\ \E call \in {loadEnvCall(schema, opt, processEnv, lastIndex)} :
       /\ trace' = call.trace
       /\ processEnv' = call.processEnv
       /\ lastIndex' = call.lastIndex
       /\ applied' = IF call.trace.error = NoError
                     THEN Append(applied, call.trace.result[1].value)
                     ELSE applied
  /\ calls' = calls + 1
  /\ UNCHANGED <<files, env0, inputLines, parseResult>>

----------------------------------------------------------------------------
\* The hosts and the callers of the model.

\* environment names
EnvT == <<"t">>

EnvP == <<"p">>

\* a process-environment key a caller may name in processEnvKey
CustomEnvKey == <<"E">>

KeyZ == <<"Z">>

\* paths a caller may name in corePath and in defaultsPathsMap
CustomCorePath == <<"/", "c">>

CustomDefaultsPath == <<"/", "d">>

CustomDefaultsPathP == <<"/", "e">>

\* file contents
TextCore == <<"A", "=", "1">>

TextCoreEmptyValue == <<"A", "=">>

TextCoreSwitch ==
  <<"N", "O", "D", "E", "_", "E", "N", "V", "=", "p", "\n", "B", "=", "2">>

TextDefaultsT == <<"A", "=", "x", "\n", "B", "=", "y">>

TextDefaultsP == <<"A", "=", "u", "\r", "\n", "B", " ", "=", " ", "v", " ", "#", "c">>

TextCustomCore == <<"B", ":", " ", DQ, "9", "#", DQ>>

TextCustomDefaults == <<"A", "=", "m", "\n", "Z", "=", "n">>

TextCustomDefaultsP == <<"e", "x", "p", "o", "r", "t", " ", "A", "=", SQ, "q", SQ>>

File(text) == [readable |-> TRUE, data |-> text]

\* a file that exists and cannot be read
Unreadable(text) == [readable |-> FALSE, data |-> text]

\* the file system: a function from the paths of the files that exist
Files(core, t, p) ==
  LET all == (DefaultCorePath :> core) @@ (DefaultDefaultsPath(EnvT) :> t)
             @@ (DefaultDefaultsPath(EnvP) :> p)
             @@ (CustomCorePath :> <<File(TextCustomCore)>>)
             @@ (CustomDefaultsPath :> <<File(TextCustomDefaults)>>)
             @@ (CustomDefaultsPathP :> <<File(TextCustomDefaultsP)>>)
  IN  [path \in {q \in DOMAIN all : all[q] # <<>>} |-> all[path][1]]

FileSystems ==
  { Files(<<File(TextCore)>>, <<File(TextDefaultsT)>>, <<File(TextDefaultsP)>>),
    Files(<<File(TextCoreEmptyValue)>>, <<File(TextDefaultsT)>>, <<>>),
    Files(<<File(TextCoreSwitch)>>, <<File(TextDefaultsT)>>, <<File(TextDefaultsP)>>),
    Files(<<>>, <<>>, <<File(TextDefaultsP)>>),
    Files(<<File(<<>>)>>, <<>>, <<>>),
    Files(<<Unreadable(TextCore)>>, <<File(<<>>)>>, <<File(TextDefaultsP)>>),
    Files(<<>>, <<File(TextDefaultsT)>>, <<>>) }

\* no text has been parsed
NotParsed == [done |-> FALSE, obj |-> EmptyObject]

\* process.env when the program starts
Environments ==
  { (NODE_ENV :> EnvT),
    (NODE_ENV :> EnvT) @@ (CustomEnvKey :> EnvP) @@ (KeyA :> <<"o">>) @@ (KeyZ :> <<"k">>),
    (NODE_ENV :> EnvP) @@ (KeyB :> <<"o">>),
    (NODE_ENV :> <<>>) @@ (CustomEnvKey :> EnvT),
    (CustomEnvKey :> EnvP) @@ (KeyA :> <<"o">>),
    (KeyB :> <<"o">>) }

\* the options of a call; NoOptions is a call without options
NoOptions ==
  [corePath |-> Undefined, defaultsPathsMap |-> EmptyObject,
   processEnvKey |-> Undefined, parse |-> "undefined", encoding |-> "undefined"]

Options ==
  { NoOptions,
    [NoOptions EXCEPT !.processEnvKey = CustomEnvKey],
    [NoOptions EXCEPT !.corePath = CustomCorePath,
                      !.defaultsPathsMap = (EnvT :> CustomDefaultsPath)
                                           @@ (EnvP :> CustomDefaultsPathP)],
    [NoOptions EXCEPT !.processEnvKey = CustomEnvKey,
                      !.defaultsPathsMap = (EnvT :> CustomDefaultsPath)],
    [NoOptions EXCEPT !.encoding = "utf8"],
    [NoOptions EXCEPT !.parse = "customParser"],
    [NoOptions EXCEPT !.parse = "markingParser"],
    [NoOptions EXCEPT !.corePath = <<>>, !.processEnvKey = <<>>,
                      !.defaultsPathsMap = (EnvT :> <<>>)] }

Schemas == {SchemaAny, SchemaObject, SchemaDefaults}

Init ==
  /\ processEnv \in Environments
  /\ files \in FileSystems
  /\ lastIndex = 0
  /\ calls = 0
  /\ env0 = processEnv
  /\ applied = <<>>
  /\ trace = NoTrace
  /\ inputLines = <<>>
  /\ parseResult = NotParsed

Next == \E schema \in Schemas, opt \in Options : loadEnv(schema, opt)

Spec == Init /\ [][Next]_vars

----------------------------------------------------------------------------
\* The built-in parser on its own: a caller gives parse a text and gets an
\* object.  A text is kept as the sequence of its lines (inputLines), which parse is
\* given joined by line feeds.

\* the number of lines of a text made of the lines below
MaxLines == 2

\* the length of the value of a text that is one declaration KEY=value
MaxValueLen == 4

\* the two-character sequences backslash n and backslash r
EscapeN == <<"\\", "n">>

EscapeR == <<"\\", "r">>

\* quote body quote
Quoted(quote, body) == <<quote>> \o body \o <<quote>>

\* the line key separator value
Declaration(key, separator, value) == key \o separator \o value

\* the lines of the texts: declarations with every separator, with quoted and
\* unquoted values, with comments and escapes, and lines that declare nothing
Lines ==
  { Declaration(KeyA, <<"=">>, <<>>),
    Declaration(KeyA, <<"=">>, <<"x">>),
    Declaration(KeyA, <<" ", "=", " ">>, <<"x">>),
    Declaration(KeyA, <<":">>, <<"x">>),
    Declaration(KeyA, <<":", " ">>, <<"x">>),
    Declaration(KeyA, <<" ", ":", " ">>, <<"x">>),
    Declaration(KeyB, <<"=">>, <<"y">>),
    Declaration(KeyB, <<":">>, <<>>),
    Declaration(KeyA, <<"=">>, <<"x", "#", "y">>),
    Declaration(KeyA, <<"=">>, Quoted(SQ, <<"x", "#", "y">>)),
    Declaration(KeyA, <<"=">>, Quoted(DQ, <<"x", "#", "y">>)),
    Declaration(KeyA, <<"=">>, Quoted(BQ, <<"x", "#", "y">>)),
    Declaration(KeyA, <<"=">>, Quoted(DQ, <<"a">> \o EscapeN \o <<"b">>)),
    Declaration(KeyA, <<"=">>, Quoted(DQ, <<"a">> \o EscapeR \o <<"b">>)),
    Declaration(KeyA, <<"=">>, Quoted(SQ, <<"a">> \o EscapeN \o <<"b">>)),
    Declaration(KeyA, <<"=">>, Quoted(BQ, <<"a">> \o EscapeR \o <<"b">>)),
    Declaration(KeyA, <<"=">>, <<"a">> \o EscapeN \o <<"b">>),
    Declaration(KeyA, <<"=">>, <<DQ, "a">> \o EscapeN \o <<"b">>),
    Declaration(KeyB, <<"=">>, <<SQ, "y">>),
    <<"y", SQ>>,
    Declaration(<<" ">> \o KeyA, <<" ", "=", " ">>, <<"x", " ", "#", " ", "c">>),
    Declaration(Export \o <<" ">> \o KeyA, <<"=">>, <<"w">>),
    KeyA,
    <<"=", "z">>,
    Quoted(SQ, <<"q">>),
    <<"#", "c">>,
    <<>> }

\* the characters of the values of the one-declaration texts
ValueChars == {"x", " ", "#", SQ, DQ, BQ, "\\", "n"}

\* the keys of the one-declaration texts
Keys == {KeyA, Export, <<"k", ".", "-", "_", "9">>}

\* the texts: up to MaxLines of the lines above, and KEY=value for every key
\* above and every value of up to MaxValueLen of the characters above
Texts ==
  UNION {[1..n -> Lines] : n \in 0..MaxLines}
  \cup { <<Declaration(key, <<"=">>, value)>> :
           key \in Keys, value \in UNION {[1..n -> ValueChars] : n \in 0..MaxValueLen} }

RECURSIVE JoinLines(_)
\* the text with the given lines: lines.join('\n')
JoinLines(lines) ==
  IF lines = <<>> THEN <<>>
  ELSE IF Len(lines) = 1 THEN lines[1]
  ELSE lines[1] \o <<"\n">> \o JoinLines(Tail(lines))

ParseInit ==
  /\ inputLines \in Texts
  /\ parseResult = NotParsed
  /\ lastIndex = 0
  /\ processEnv = EmptyObject
  /\ files = EmptyObject
  /\ calls = 0
  /\ env0 = EmptyObject
  /\ applied = <<>>
  /\ trace = NoTrace

\* a caller calls parse(src) with the text of the input
parseText ==
  /\ ~parseResult.done
  /\ \E r \in {parse([type |-> "string", data |-> JoinLines(inputLines)], lastIndex)} :
       /\ parseResult' = [done |-> TRUE, obj |-> r.obj]
       /\ lastIndex' = r.lastIndex
  /\ UNCHANGED <<processEnv, files, calls, env0, applied, trace, inputLines>>

ParseNext == parseText

ParseSpec == ParseInit /\ [][ParseNext]_vars

----------------------------------------------------------------------------
\* What the properties below speak of: the last call, as trace records it.

Returned == trace.called /\ trace.error = NoError

Threw(error) == trace.called /\ trace.error = error

\* the file at path exists and can be read
Present(path) == path \in DOMAIN files /\ files[path].readable

\* the file at path exists, can be read and holds nothing
PresentAndEmpty(path) == Present(path) /\ files[path].data = <<>>

\* the variables the file at path defines for the parser of the last call
\* (none when the file is absent)
FileVariables(path) ==
  IF Present(path)
  THEN actualParse(trace.opt.parse, [type |-> "string", data |-> files[path].data], 0).obj
  ELSE EmptyObject

\* what the parser of the last call makes of the empty string
EmptyStringVariables ==
  actualParse(trace.opt.parse, [type |-> "string", data |-> <<>>], 0).obj

\* what the source at path gives the parser of the last call: the file's
\* variables, or the parser's result for '' when the file is absent
SourceVariables(path) ==
  IF Present(path) THEN FileVariables(path) ELSE EmptyStringVariables

\* an option that is a string counts as supplied when it is a non-empty string
Supplied(x) == x # Undefined /\ x # <<>>

\* the process-environment key that holds the environment name
DiscriminatorKey ==
  IF Supplied(trace.opt.processEnvKey) THEN trace.opt.processEnvKey ELSE NODE_ENV

\* the environment name when the last call was made
EnvironmentName == Lookup(trace.envBefore, DiscriminatorKey)

\* the defaults file that belongs to the environment called name
DefaultsPathOf(name) ==
  IF name \in DOMAIN trace.opt.defaultsPathsMap
     /\ Supplied(trace.opt.defaultsPathsMap[name])
  THEN trace.opt.defaultsPathsMap[name]
  ELSE Cwd \o <<"/">> \o DotEnv \o <<".">> \o name \o DotDefaults

\* the core file of the last call
CorePath ==
  IF Supplied(trace.opt.corePath) THEN trace.opt.corePath
  ELSE Cwd \o <<"/">> \o DotEnv

\* base with the entries of over written over it
Overlay(base, over) ==
  [k \in DOMAIN base \cup DOMAIN over |->
     IF k \in DOMAIN over THEN over[k] ELSE base[k]]

RECURSIVE OverlayAll(_, _)
\* base with the mappings of the sequence written over it, one after another
OverlayAll(base, mappings) ==
  IF mappings = <<>> THEN base
  ELSE OverlayAll(Overlay(base, Head(mappings)), Tail(mappings))

\* the schema of the last call hands on the values it is given
PassThrough == trace.schema.kind \in {"any", "object"}

----------------------------------------------------------------------------
\* C1: when a call returns, a key that both the core file and the defaults
\* file define has the core file's value in the merged mapping (and in
\* process.env when the schema hands values on), and a key that only the
\* defaults file defines has the defaults file's value.
C1_CoreOverridesDefaults ==
  Returned =>
    LET core     == FileVariables(trace.reads[1])
        defaults == FileVariables(trace.reads[2])
        merged   == trace.tried[1]
    IN  /\ \A k \in DOMAIN core \cap DOMAIN defaults :
             /\ Lookup(merged, k) = core[k]
             /\ PassThrough => Lookup(processEnv, k) = core[k]
        /\ \A k \in DOMAIN defaults \ DOMAIN core :
             /\ Lookup(merged, k) = defaults[k]
             /\ PassThrough => Lookup(processEnv, k) = defaults[k]

\* a call returned with a key of both files whose two values differ and a key
\* of the defaults file only
C1_Witness ==
  /\ Returned
  /\ PassThrough
  /\ LET core     == FileVariables(trace.reads[1])
         defaults == FileVariables(trace.reads[2])
     IN  /\ \E k \in DOMAIN core \cap DOMAIN defaults : core[k] # defaults[k]
         /\ DOMAIN defaults \ DOMAIN core # {}

\* C2: a key the core file defines with an empty value has the empty string in
\* the merged mapping, whatever non-empty value the defaults file gives it.
C2_EmptyCoreValueWins ==
  (trace.called /\ trace.tried # <<>>) =>
    LET core     == FileVariables(trace.reads[1])
        defaults == FileVariables(trace.reads[2])
    IN  \A k \in DOMAIN core \cap DOMAIN defaults :
          core[k] = <<>> => Lookup(trace.tried[1], k) = <<>>

\* a call returned where the core file gives a key the empty value, the
\* defaults file a non-empty one, and process.env has the empty string
C2_Witness ==
  /\ Returned
  /\ LET core     == FileVariables(trace.reads[1])
         defaults == FileVariables(trace.reads[2])
     IN  \E k \in DOMAIN core \cap DOMAIN defaults :
           /\ core[k] = <<>>
           /\ defaults[k] # <<>>
           /\ Lookup(processEnv, k) = <<>>

\* C3: when the schema rejects the merged mapping, the call throws the
\* validation error and process.env is what it was before the call.
C3_RejectedLeavesEnvUnchanged ==
  (trace.called /\ trace.result # <<>> /\ ~trace.result[1].ok) =>
    /\ trace.error = ValidationError(trace.result[1].issues)
    /\ processEnv = trace.envBefore

\* the schema rejected a merged mapping with a key process.env did not hold
\* with that value
C3_Witness ==
  /\ trace.called
  /\ trace.result # <<>>
  /\ ~trace.result[1].ok
  /\ \E k \in DOMAIN trace.tried[1] :
       Lookup(trace.envBefore, k) # trace.tried[1][k]

\* C4: when the environment name is unset or the empty string, the call throws
\* the missing-environment error, reads no file, calls no parser and no schema,
\* and leaves process.env as it was.
C4_MissingEnvironmentFailsFirst ==
  (trace.called /\ EnvironmentName \in {Undefined, <<>>}) =>
    /\ trace.error = MissingEnvironmentError
    /\ trace.reads = <<>>
    /\ trace.parses = <<>>
    /\ trace.tried = <<>>
    /\ processEnv = trace.envBefore

\* a call with the environment name set to the empty string and a core file
\* that could have been read
C4_Witness ==
  /\ Threw(MissingEnvironmentError)
  /\ DiscriminatorKey \in DOMAIN trace.envBefore
  /\ EnvironmentName = <<>>
  /\ Present(CorePath)

\* C5: when the environment name is set and neither the core file nor the
\* defaults file of that environment can be read, the call throws the
\* no-source-file error, calls no parser and no schema, and leaves process.env
\* as it was.
C5_NoSourceFileFails ==
  (trace.called /\ EnvironmentName \notin {Undefined, <<>>}
     /\ ~Present(CorePath) /\ ~Present(DefaultsPathOf(EnvironmentName))) =>
    /\ trace.error = NoSourceFileError
    /\ trace.parses = <<>>
    /\ trace.tried = <<>>
    /\ processEnv = trace.envBefore

\* a call that found neither of its two files while the defaults file of
\* another environment was there
C5_Witness ==
  /\ Threw(NoSourceFileError)
  /\ ~Present(CorePath)
  /\ ~Present(DefaultsPathOf(EnvironmentName))
  /\ \E name \in {EnvT, EnvP} : name # EnvironmentName /\ Present(DefaultsPathOf(name))

\* C6: a core or defaults file that exists and is empty counts as present:
\* with the environment name set, the call does not throw the no-source-file
\* error and goes on to the schema, whatever the options (encoding included).
C6_EmptyFileIsPresent ==
  (trace.called /\ EnvironmentName \notin {Undefined, <<>>}
     /\ (PresentAndEmpty(CorePath) \/ PresentAndEmpty(DefaultsPathOf(EnvironmentName)))) =>
    /\ trace.error # NoSourceFileError
    /\ trace.tried # <<>>

\* C7: when a call returns, process.env is what it was before the call with
\* the mapping the schema returned written over it: every key of that mapping
\* has the mapping's value, every other key is as it was, and nothing else is
\* there.
C7_EnvGetsValidatedMapping ==
  Returned =>
    LET value == trace.result[1].value
    IN  /\ DOMAIN processEnv = DOMAIN trace.envBefore \cup DOMAIN value
        /\ \A k \in DOMAIN value : processEnv[k] = value[k]
        /\ \A k \in DOMAIN trace.envBefore \ DOMAIN value :
             processEnv[k] = trace.envBefore[k]

\* a call returned a mapping that is not the merged one, wrote over a key that
\* had another value and left a key alone
C7_Witness ==
  /\ Returned
  /\ trace.result[1].value # trace.tried[1]
  /\ \E k \in DOMAIN trace.result[1].value \cap DOMAIN trace.envBefore :
       trace.envBefore[k] # trace.result[1].value[k]
  /\ \E k \in DOMAIN trace.envBefore \ DOMAIN trace.result[1].value :
       k \notin {NODE_ENV, CustomEnvKey}

\* C8: over any sequence of calls, process.env is the initial environment with
\* the mappings of the calls that returned written over it in call order; a
\* call that throws adds nothing.
C8_NoPartialCompletion ==
  /\ Len(applied) <= calls
  /\ processEnv = OverlayAll(env0, applied)
  /\ (trace.called /\ trace.error # NoError) => processEnv = trace.envBefore

\* a call returned and changed process.env, and the next call was rejected by
\* the schema with variables loaded
C8_Witness ==
  /\ calls = 2
  /\ Len(applied) = 1
  /\ processEnv # env0
  /\ trace.called
  /\ trace.result # <<>>
  /\ ~trace.result[1].ok
  /\ trace.tried[1] # EmptyObject

\* C9: the defaults file a call reads is the one of the current environment
\* name: the entry of defaultsPathsMap for that name when it is a non-empty
\* string, else .env.<name>.defaults in the working directory.  The defaults
\* file of another environment is not read and gives the merged mapping
\* nothing.
C9_DefaultsFileByEnvironmentName ==
  (trace.called /\ trace.reads # <<>>) =>
    /\ Len(trace.reads) = 2
    /\ trace.reads[2] = DefaultsPathOf(EnvironmentName)
    /\ \A name \in ({EnvT, EnvP} \cup DOMAIN trace.opt.defaultsPathsMap) \ {EnvironmentName} :
         /\ DefaultsPathOf(name) # DefaultsPathOf(EnvironmentName)
              => DefaultsPathOf(name) \notin {trace.reads[1], trace.reads[2]}
    /\ trace.tried # <<>> =>
         LET core     == SourceVariables(CorePath)
             defaults == SourceVariables(DefaultsPathOf(EnvironmentName))
         IN  \A k \in DOMAIN trace.tried[1] :
               \/ k \in DOMAIN core /\ trace.tried[1][k] = core[k]
               \/ k \in DOMAIN defaults /\ trace.tried[1][k] = defaults[k]

\* C9 as first stated: whenever defaultsPathsMap has an entry for the current
\* environment name, that entry is the defaults file the call reads.
C9_AnyMapEntrySelects ==
  (trace.called /\ trace.reads # <<>>
     /\ EnvironmentName \in DOMAIN trace.opt.defaultsPathsMap) =>
    trace.reads[2] = trace.opt.defaultsPathsMap[EnvironmentName]

\* a call in the environment p returned after it read the map's entry for p,
\* while the map's entry for t and .env.t.defaults were there to read
C9_Witness ==
  /\ Returned
  /\ EnvironmentName = EnvP
  /\ EnvP \in DOMAIN trace.opt.defaultsPathsMap
  /\ EnvT \in DOMAIN trace.opt.defaultsPathsMap
  /\ trace.reads[2] = trace.opt.defaultsPathsMap[EnvP]
  /\ Present(trace.opt.defaultsPathsMap[EnvT])
  /\ Present(Cwd \o <<"/">> \o DotEnv \o <<".">> \o EnvT \o DotDefaults)
  /\ FileVariables(trace.opt.defaultsPathsMap[EnvT]) # FileVariables(trace.reads[2])

\* C10: when processEnvKey is a non-empty string, the environment name is the
\* value of that key of process.env and NODE_ENV has no say: that value decides whether
\* the missing-environment error is thrown and which defaults file is read.
\* Without processEnvKey, or with the empty string for it, the key is NODE_ENV.
C10_ProcessEnvKeyNamesTheEnvironment ==
  trace.called =>
    LET key  == IF Supplied(trace.opt.processEnvKey)
                THEN trace.opt.processEnvKey ELSE NODE_ENV
        name == Lookup(trace.envBefore, key)
    IN  /\ (trace.error = MissingEnvironmentError) <=> (name \in {Undefined, <<>>})
        /\ trace.reads # <<>> =>
             trace.reads[2] =
               IF name \in DOMAIN trace.opt.defaultsPathsMap
                  /\ Supplied(trace.opt.defaultsPathsMap[name])
               THEN trace.opt.defaultsPathsMap[name]
               ELSE Cwd \o <<"/">> \o DotEnv \o <<".">> \o name \o DotDefaults

\* C10 as first stated: whenever processEnvKey is given, whatever string it is,
\* the call throws the missing-environment error exactly when process.env has
\* no value or the empty string under that key.
C10_AnyProcessEnvKeyIsUsed ==
  (trace.called /\ trace.opt.processEnvKey # Undefined) =>
    ((trace.error = MissingEnvironmentError)
       <=> (Lookup(trace.envBefore, trace.opt.processEnvKey) \in {Undefined, <<>>}))

\* a call with processEnvKey supplied returned after it read the defaults file
\* of the name under that key, while NODE_ENV named another environment
C10_Witness ==
  /\ Returned
  /\ Supplied(trace.opt.processEnvKey)
  /\ trace.opt.processEnvKey # NODE_ENV
  /\ NODE_ENV \in DOMAIN trace.envBefore
  /\ trace.envBefore[NODE_ENV] \notin {<<>>, trace.envBefore[trace.opt.processEnvKey]}
  /\ trace.reads[2] =
       Cwd \o <<"/">> \o DotEnv \o <<".">> \o trace.envBefore[trace.opt.processEnvKey] \o DotDefaults

\* C11: when options.parse is supplied, each of the two sources is parsed by
\* it and not by the built-in parser; when it is not, each is parsed by the
\* built-in parser.  The defaults source is parsed first, the core source
\* second, and the merged mapping is the first result with the second written
\* over it.
C11_EffectiveParser ==
  (trace.called /\ trace.tried # <<>>) =>
    /\ Len(trace.parses) = 2
    /\ trace.parses[1].src.data =
         (IF Present(trace.reads[2]) THEN files[trace.reads[2]].data ELSE <<>>)
    /\ trace.parses[2].src.data =
         (IF Present(trace.reads[1]) THEN files[trace.reads[1]].data ELSE <<>>)
    /\ \A i \in 1..2 :
         /\ trace.parses[i].parser =
              (IF trace.opt.parse = "undefined" THEN "parse" ELSE trace.opt.parse)
         /\ trace.parses[i].obj =
              (CASE trace.opt.parse = "customParser" ->
                      customParser(trace.parses[i].src)
                 [] trace.opt.parse = "markingParser" ->
                      markingParser(trace.parses[i].src)
                 [] OTHER -> parse(trace.parses[i].src, 0).obj)
    /\ trace.tried[1] = Overlay(trace.parses[1].obj, trace.parses[2].obj)

\* a call with options.parse returned, with a core file and a defaults file,
\* one of which the two parsers read differently
C11_Witness ==
  /\ Returned
  /\ trace.opt.parse = "customParser"
  /\ \A i \in 1..2 : trace.parses[i].src.data # <<>>
  /\ \E i \in 1..2 :
       customParser(trace.parses[i].src) # parse(trace.parses[i].src, 0).obj

\* C12: when the schema rejects the merged mapping, the error thrown reports
\* every issue of the schema's list, in the list's order, each with its code,
\* path, message and parameters.
C12_EveryIssueReported ==
  (trace.called /\ trace.result # <<>> /\ ~trace.result[1].ok) =>
    /\ trace.error.message = "Validation errors: "
    /\ Len(trace.error.issues) = Len(trace.result[1].issues)
    /\ \A i \in 1..Len(trace.result[1].issues) :
         \A name \in {"code", "path", "message", "param"} :
           /\ name \in DOMAIN trace.error.issues[i]
           /\ trace.error.issues[i][name] = trace.result[1].issues[i][name]

\* a call was rejected with two issues whose paths differ
C12_Witness ==
  /\ trace.called
  /\ trace.result # <<>>
  /\ ~trace.result[1].ok
  /\ Len(trace.result[1].issues) = 2
  /\ trace.result[1].issues[1].path # trace.result[1].issues[2].path
  /\ Len(trace.error.issues) = 2

----------------------------------------------------------------------------
\* What the properties of the parser speak of: the text parsed and its result.

\* the position of the first = of a line (past its end when it has none)
EqualsAt(line) == RunEndNot(line, 1, {"="})

\* the line is KEY=value with a key of key characters
PlainDeclaration(line) ==
  /\ EqualsAt(line) > 1
  /\ EqualsAt(line) <= Len(line)
  /\ \A k \in 1..(EqualsAt(line) - 1) : line[k] \in KeyChar

\* the key and the value of a line that is KEY=value
DeclaredKey(line) == SubSeq(line, 1, EqualsAt(line) - 1)

DeclaredValue(line) == SubSeq(line, EqualsAt(line) + 1, Len(line))

\* the text parsed is one line, KEY=value
OneDeclaration ==
  parseResult.done /\ Len(inputLines) = 1 /\ PlainDeclaration(inputLines[1])

\* v is wrapped in the quote character: it begins and ends with it and has none
\* in between
WrappedIn(v, quote) ==
  /\ Len(v) >= 2
  /\ v[1] = quote
  /\ v[Len(v)] = quote
  /\ \A k \in 2..(Len(v) - 1) : v[k] # quote

\* what the quotes of a wrapped value enclose
Body(v) == SubSeq(v, 2, Len(v) - 1)

\* the characters of v before its first #
BeforeComment(v) == SubSeq(v, 1, RunEndNot(v, 1, {"#"}) - 1)

Contains(v, c) == \E k \in 1..Len(v) : v[k] = c

\* C13: a line KEY= with nothing after the separator makes KEY a key of the
\* result with the empty string for its value, whatever lines come before and
\* after it, provided no later line declares KEY again.
C13_EmptyRightHandSide ==
  parseResult.done =>
    \A i \in 1..Len(inputLines) : \A key \in {KeyA, KeyB} :
      ( /\ inputLines[i] = Declaration(key, <<"=">>, <<>>)
        /\ \A j \in (i + 1)..Len(inputLines) :
             key \notin DOMAIN parse([type |-> "string", data |-> inputLines[j]], 0).obj )
      => Lookup(parseResult.obj, key) = <<>>

\* C14: a value wrapped in single quotes, double quotes or backquotes that
\* holds a # is the value of its key with the # and what follows it inside the
\* quotes (in double quotes with the escapes expanded); in a value that does not
\* begin with a quote character the first # ends the value.
C14_HashInsideQuotes ==
  OneDeclaration =>
    \A v \in {Trim(DeclaredValue(inputLines[1]))} :
      /\ \A quote \in QuoteChar :
           (WrappedIn(v, quote) /\ Contains(Body(v), "#")) =>
             parseResult.obj =
               (DeclaredKey(inputLines[1]) :>
                  IF quote = DQ
                  THEN ReplaceEscape(ReplaceEscape(Body(v), "n", "\n"), "r", "\r")
                  ELSE Body(v))
      /\ (v # <<>> /\ v[1] \notin QuoteChar /\ Contains(v, "#")) =>
           parseResult.obj = (DeclaredKey(inputLines[1]) :> Trim(BeforeComment(v)))

\* KEY='x#y' was parsed, with a # inside the quotes and characters after it
C14_Witness ==
  /\ OneDeclaration
  /\ WrappedIn(DeclaredValue(inputLines[1]), SQ)
  /\ Contains(Body(DeclaredValue(inputLines[1])), "#")
  /\ Body(DeclaredValue(inputLines[1]))[1] # "#"
  /\ Body(DeclaredValue(inputLines[1]))[Len(Body(DeclaredValue(inputLines[1])))] # "#"
  /\ parseResult.obj[DeclaredKey(inputLines[1])] = Body(DeclaredValue(inputLines[1]))

\* C15: in a double-quoted value every backslash n becomes a line feed and
\* every backslash r a carriage return; in every other value (single-quoted,
\* backquoted, unquoted) the two are left as they are, so that the value parsed
\* has no line feed and no carriage return.
C15_EscapesOnlyInDoubleQuotes ==
  OneDeclaration =>
    \A v \in {Trim(DeclaredValue(inputLines[1]))} :
      \A value \in {Lookup(parseResult.obj, DeclaredKey(inputLines[1]))} :
        IF WrappedIn(v, DQ)
        THEN value = ReplaceEscape(ReplaceEscape(Body(v), "n", "\n"), "r", "\r")
        ELSE value # Undefined =>
               \A k \in 1..Len(value) : value[k] \notin LineTerminator

\* C16: for a key of key characters and an unquoted value v (no line break, no
\* #, no white space at its ends, not wrapped in quotes), the one line KEY=v
\* parses to the mapping of KEY to v.
C16_UnquotedRoundTrip ==
  OneDeclaration =>
    \A v \in {DeclaredValue(inputLines[1])} :
      ( /\ ~Contains(v, "#")
        /\ \A k \in 1..Len(v) : v[k] \notin LineTerminator
        /\ Trim(v) = v
        /\ ~(\E quote \in QuoteChar : Len(v) >= 2 /\ v[1] = quote /\ v[Len(v)] = quote) )
      => parseResult.obj = (DeclaredKey(inputLines[1]) :> v)

C18_BareKeyDeclaresNothing ==
  parseResult.done =>
    /\ inputLines = <<KeyA>> => parseResult.obj = EmptyObject
    /\ inputLines = <<Declaration(KeyA, <<"=">>, <<>>)>>
         => parseResult.obj = (KeyA :> <<>>)

\* the text that is a bare KEY was parsed
C18_Witness ==
  /\ parseResult.done
  /\ inputLines = <<KeyA>>
  /\ KeyA \notin DOMAIN parseResult.obj

\* C18 as first stated: a bare KEY maps KEY to the empty string.
C18_BareKeyIsEmptyString ==
  (parseResult.done /\ inputLines = <<KeyA>>) =>
    parseResult.obj = (KeyA :> <<>>)

RECURSIVE LineByLine(_, _)
\* the results of parsing each line on its own, written over obj in line order
LineByLine(lines, obj) ==
  IF lines = <<>> THEN obj
  ELSE LineByLine(Tail(lines),
                  Overlay(obj, parse([type |-> "string", data |-> Head(lines)], 0).obj))

\* C19: for a text without quote characters, the result is what parsing each
\* line on its own gives, the results combined in line order.
C19_OneDeclarationPerLine ==
  (parseResult.done
     /\ \A i \in 1..Len(inputLines) : \A k \in 1..Len(inputLines[i]) :
          inputLines[i][k] \notin QuoteChar)
  => parseResult.obj = LineByLine(inputLines, EmptyObject)

RECURSIVE DeclarationsFrom(_, _)
\* the declarations of the text s in text order, from LINE.lastIndex = li on:
\* the key and the value of each match of LINE
DeclarationsFrom(s, li) ==
  The({ IF ~r.match.ok THEN <<>>
        ELSE << [key   |-> Sub(s, r.match.ks, r.match.ke),
                 value |-> MatchValue(IF r.match.has
                                      THEN Sub(s, r.match.vs, r.match.ve)
                                      ELSE <<>>)] >>
             \o DeclarationsFrom(s, r.lastIndex)
        : r \in {Exec(s, li)} })

\* the declarations of the text parsed
Declarations == DeclarationsFrom(NormalizeLineBreaks(JoinLines(inputLines)), 0)

\* C20: the keys of the result are the keys declared in the text, each once,
\* and the value of a key is the value of its last declaration in the text.
C20_LastDeclarationWins ==
  parseResult.done =>
    \A ds \in {Declarations} :
      /\ DOMAIN parseResult.obj = {ds[i].key : i \in 1..Len(ds)}
      /\ \A i \in 1..Len(ds) :
           (\A j \in (i + 1)..Len(ds) : ds[j].key # ds[i].key)
             => parseResult.obj[ds[i].key] = ds[i].value

\* a text that declares a key twice, with two values, was parsed
C20_Witness ==
  /\ parseResult.done
  /\ \E ds \in {Declarations} :
       /\ Len(ds) = 2
       /\ ds[1].key = ds[2].key
       /\ ds[1].value # ds[2].value
       /\ parseResult.obj = (ds[2].key :> ds[2].value)

RECURSIVE CapturesFrom(_, _)
\* the matches of LINE in the text s, from LINE.lastIndex = li on: the key and
\* the second group of each as the text has them (match[1], match[2] || '')
CapturesFrom(s, li) ==
  The({ IF ~r.match.ok THEN <<>>
        ELSE << [key |-> Sub(s, r.match.ks, r.match.ke),
                 raw |-> IF r.match.has THEN Sub(s, r.match.vs, r.match.ve)
                         ELSE <<>>] >>
             \o CapturesFrom(s, r.lastIndex)
        : r \in {Exec(s, li)} })

\* the matches of the text parsed
Captures == CapturesFrom(NormalizeLineBreaks(JoinLines(inputLines)), 0)

\* v begins and ends with the same quote character, at two positions
SameOuterQuotes(v) == Len(v) >= 2 /\ v[1] \in QuoteChar /\ v[Len(v)] = v[1]

\* v without its pair of outer quotes when it has one, else v
Unquoted(v) == IF SameOuterQuotes(v) THEN Body(v) ELSE v

\* the escapes that parse expands afterwards in a value that began with a
\* double quote
EscapesExpanded(v, value) ==
  IF v # <<>> /\ v[1] = DQ
  THEN ReplaceEscape(ReplaceEscape(value, "n", "\n"), "r", "\r")
  ELSE value

----------------------------------------------------------------------------
\* The loader again.

\* exactly one of the two files of the last call is absent
OneSourceAbsent ==
  /\ trace.called
  /\ trace.tried # <<>>
  /\ Present(trace.reads[1]) # Present(trace.reads[2])

\* the file of the last call that is there, when one is absent
PresentPath == IF Present(trace.reads[1]) THEN trace.reads[1] ELSE trace.reads[2]

\* C22: an absent source contributes what the parser in effect returns for the
\* empty string: when exactly one of the two files is absent, the merged mapping
\* is the defaults source's mapping with the core source's written over it, the
\* absent one's being the parser's result for ''.  That result is the empty
\* mapping for the built-in parser (and for a caller's parser that returns it
\* for ''), and then the merged mapping is the present file's parse result.
C22_AbsentSourceIsTheEmptyString ==
  OneSourceAbsent =>
    /\ trace.tried[1] =
         (IF Present(trace.reads[1])
          THEN Overlay(EmptyStringVariables, FileVariables(trace.reads[1]))
          ELSE Overlay(FileVariables(trace.reads[2]), EmptyStringVariables))
    /\ trace.opt.parse = "undefined" => EmptyStringVariables = EmptyObject
    /\ EmptyStringVariables = EmptyObject =>
         trace.tried[1] = FileVariables(PresentPath)

\* a call with a caller's parser and one file absent: the merged mapping is the
\* present file's variables
C22_Witness ==
  /\ OneSourceAbsent
  /\ trace.opt.parse = "customParser"
  /\ FileVariables(PresentPath) # EmptyObject
  /\ trace.tried[1] = FileVariables(PresentPath)

\* C22 as first stated: with any parser the merged mapping is the present
\* file's parse result.
C22_AbsentSourceIsEmpty ==
  OneSourceAbsent => trace.tried[1] = FileVariables(PresentPath)

\* the process environments that hold the environment name of the last call
\* under its discriminator key: those of the hosts, and the one with that
\* entry alone
AgreeingEnvironments ==
  { env \in Environments \cup
            { [k \in DOMAIN trace.envBefore \cap {DiscriminatorKey} |->
                 trace.envBefore[k]] } :
      Lookup(env, DiscriminatorKey) = EnvironmentName }

\* C23: process.env takes no part in the merge or the validation.  The mapping
\* handed to the schema has only keys of the two sources; a key the schema
\* requires that process.env holds and no source defines is reported missing;
\* and the call does the same (the same reads, the same mapping, the same
\* answer of the schema, the same error) from every process environment that
\* holds the same environment name under the discriminator key.
C23_ProcessEnvTakesNoPart ==
  trace.called =>
    /\ trace.tried # <<>> =>
         /\ DOMAIN trace.tried[1] =
              DOMAIN SourceVariables(trace.reads[1])
                \cup DOMAIN SourceVariables(trace.reads[2])
         /\ \A i \in 1..Len(trace.schema.shape) :
              ( /\ trace.schema.kind = "object"
                /\ trace.schema.shape[i] \in DOMAIN trace.envBefore
                /\ trace.schema.shape[i] \notin DOMAIN trace.tried[1] )
              => /\ ~trace.result[1].ok
                 /\ trace.error.message = "Validation errors: "
                 /\ \E n \in 1..Len(trace.error.issues) :
                      trace.error.issues[n].path = <<trace.schema.shape[i]>>
    /\ \A env \in AgreeingEnvironments :
         \A other \in {loadEnvCall(trace.schema, trace.opt, env, 0).trace} :
           /\ other.reads = trace.reads
           /\ other.tried = trace.tried
           /\ other.result = trace.result
           /\ other.error = trace.error

\* the schema rejected a call for a key that process.env holds and neither
\* file defines, and another process environment agrees on the discriminator key
C23_Witness ==
  /\ trace.called
  /\ trace.tried # <<>>
  /\ trace.schema.kind = "object"
  /\ KeyB \in DOMAIN trace.envBefore
  /\ KeyB \notin DOMAIN trace.tried[1]
  /\ ~trace.result[1].ok
  /\ \E env \in AgreeingEnvironments :
       env # trace.envBefore /\ KeyB \notin DOMAIN env

\* the step is a second call: a call made right after a call that returned,
\* with the same schema and the same options (the files never change)
SecondCall ==
  /\ trace.called
  /\ trace.error = NoError
  /\ trace'.called
  /\ trace'.schema = trace.schema
  /\ trace'.opt = trace.opt

\* the value the first call assigned leaves the environment name as it was:
\* it has no entry for the discriminator key, or the entry is the name
FirstCallKeepsEnvironmentName ==
  \A value \in {trace.result[1].value} :
    DiscriminatorKey \in DOMAIN value
      => value[DiscriminatorKey] = Lookup(trace.envBefore, DiscriminatorKey)

\* the second call returns, reads the paths the first read, hands the schema
\* the mapping the first did and leaves process.env as the first left it
SecondCallRepeatsFirst ==
  /\ trace'.error = NoError
  /\ trace'.reads = trace.reads
  /\ trace'.tried = trace.tried
  /\ processEnv' = processEnv

\* C24: a second call made right after a call that returned, with the same
\* schema, options and files, returns as well, reads the same two paths and
\* leaves process.env as the first call left it, provided the value the first
\* call assigned did not change the environment name (the value under the
\* discriminator key).
C24_IdempotentWhileEnvironmentNameKept ==
  [][(SecondCall /\ FirstCallKeepsEnvironmentName) => SecondCallRepeatsFirst]_vars

\* two calls with the same schema and options have returned, the first of which
\* changed process.env and assigned the discriminator key the name it had: the
\* state is the one the first call, made again from the first process.env,
\* and then the second lead to
C24_Witness ==
  /\ calls = 2
  /\ Returned
  /\ \E first \in {loadEnvCall(trace.schema, trace.opt, env0, 0)} :
       /\ first.trace.error = NoError
       /\ first.processEnv = trace.envBefore
       /\ first.processEnv # env0
       /\ applied = <<first.trace.result[1].value, trace.result[1].value>>
       /\ DiscriminatorKey \in DOMAIN first.trace.result[1].value
       /\ Lookup(env0, DiscriminatorKey) = EnvironmentName
       /\ trace.reads = first.trace.reads
       /\ processEnv = trace.envBefore

\* C24 as first stated: every second call repeats the first, also when the
\* files define the discriminator key.
C24_Idempotent == [][SecondCall => SecondCallRepeatsFirst]_vars

\* C25: the built-in parser carries nothing from one call to the next.
\* LINE.lastIndex is 0 whenever no parse is running, so every parse begins at
\* the start of its text; each result of the built-in parser in a call is what
\* parse gives for that text from a fresh LINE, whatever was parsed before it
\* (the defaults file before the core file, the files of the call before).
C25_ParserKeepsNoState ==
  /\ lastIndex = 0
  /\ (trace.called /\ trace.opt.parse = "undefined") =>
       \A i \in 1..Len(trace.parses) :
         \A fresh \in {parse(trace.parses[i].src, 0)} :
           /\ trace.parses[i].obj = fresh.obj
           /\ fresh.lastIndex = 0

\* the second of two calls parsed two files that are not empty with the
\* built-in parser, after the first call had parsed
C25_Witness ==
  /\ calls = 2
  /\ Len(applied) = 2
  /\ trace.called
  /\ trace.opt.parse = "undefined"
  /\ Len(trace.parses) = 2
  /\ \A i \in 1..2 : trace.parses[i].src.data # <<>> /\ trace.parses[i].obj # EmptyObject
  /\ trace.parses[1].src # trace.parses[2].src
  /\ lastIndex = 0

====
